---- MODULE Spec2Model ----
(***************************************************************************)
(* The Cascade information-reconciliation engine of brunorijsman/qkd-cascade *)
(* (bb84/cascade/session.py, bb84/cascade/key.py).  Block, Shuffle,         *)
(* Parameters and the mock classical channel are collaborators whose code  *)
(* is not part of the sources at hand; they are modelled from the design   *)
(* description.                                                            *)
(***************************************************************************)
EXTENDS Integers, Sequences, FiniteSets, TLC

\* ---------------------------------------------------------------- bounds
MaxKeySize == 3
MaxKeySeed == 1
MaxShuffleSeed == 1
MaxIterations == 2
MaxBlockSize == 3
MaxCallerCalls == 1
MaxLog2KeySize == 3
MaxErrorCount == 3
MaxPending == 2

\* ------------------------------------------------------------- constants
None == -1
NoBlock == 0
ERRORS_EVEN == "EVEN"
ERRORS_ODD == "ODD"

VARIABLES
    pc,                 \* position of the caller / of correct_key
    alice,              \* alice_key, the key the mock channel answers from
    bob,                \* the key handed to correct_key (None before Key.copy)
    parameters,         \* [nr_iterations, sub_block_reuse]
    shuffles,           \* the Shuffle of every pass so far
    blocks,             \* every Block ever created, in creation order
    key_index_to_blocks, \* Session._key_index_to_blocks
    error_blocks,       \* Session._error_blocks, a heapq of <<size, block>>
    channel,            \* what the classical channel has been told/asked
    iteration,          \* loop variable of correct_key
    todo,               \* top-level blocks of this pass still to visit
    caller_calls,       \* operations called directly on blocks and session
    op,                 \* the operation performed by the last step
    calls,              \* correct_one_bit invocations of the last step
    random_state,       \* the generator of the random module, shared by all
    running,            \* the session whose operations are being executed
    other               \* the variables above of the session that is not

\* One session, its keys and the position of its caller.
session == <<pc, alice, bob, parameters, shuffles, blocks, key_index_to_blocks,
             error_blocks, channel, iteration, todo, caller_calls, op, calls>>

\* What lies outside the running session.
peer == <<random_state, running, other>>

vars == <<pc, alice, bob, parameters, shuffles, blocks, key_index_to_blocks,
          error_blocks, channel, iteration, todo, caller_calls, op, calls,
          random_state, running, other>>

\* Bind(e, F) is F(e) with e evaluated once.
Bind(e, F(_)) == CHOOSE r \in {F(v) : v \in {e}} : TRUE

\* ------------------------------------------------------------------- Key
Pow2(n) == IF n = 0 THEN 1 ELSE IF n = 1 THEN 2 ELSE IF n = 2 THEN 4
           ELSE IF n = 3 THEN 8 ELSE IF n = 4 THEN 16 ELSE 32

\* Key.create_random_key: size bits, each randint(0, 1) of a seeded generator.
create_random_key(size, seed) ==
    [size |-> size, bits |-> [i \in 0 .. size - 1 |-> (seed \div Pow2(i)) % 2]]

\* Key.flip_bit
flip_bit_stuck(bits, index) == [bits EXCEPT ![index] = 1]
flip_bit(bits, index) == [bits EXCEPT ![index] = 1 - bits[index]]

RECURSIVE FlipAll(_, _)
FlipAll(bits, S) ==
    IF S = {} THEN bits
    ELSE LET index == CHOOSE x \in S : TRUE
         IN  Bind([bits EXCEPT ![index] = 1 - bits[index]],
                  LAMBDA flipped : FlipAll(flipped, S \ {index}))

\* The random module: one generator for the whole process.  Its state is a
\* number, the next state a linear congruence, a draw below n the state
\* modulo n; random.sample draws from a pool as the library does.
random_next(state) == (5 * state + 3) % 16
randbelow(state, n) == state % n

RECURSIVE sample_from(_, _, _, _, _, _)
sample_from(pool, n, k, i, state, result) ==
    IF i = k THEN [sample |-> result, state |-> state]
    ELSE LET j == randbelow(state, n - i)
         IN  sample_from([pool EXCEPT ![j] = pool[n - i - 1]], n, k, i + 1,
                         random_next(state), result \cup {pool[j]})
random_sample(state, n, k) ==
    sample_from([i \in 0 .. n - 1 |-> i], n, k, 0, state, {})

\* Key.copy: the pair <<self after the call, returned key>>.  bits_to_flip is
\* the random.sample of error_count distinct indexes.
copy_no_noise(self, bits_to_flip) ==
    [self |-> self, key |-> [size |-> self.size, bits |-> self.bits]]
copy(self, bits_to_flip) ==
    [self |-> [self EXCEPT !.bits = FlipAll(self.bits, bits_to_flip)],
     key  |-> [size |-> self.size, bits |-> self.bits]]

\* Key.difference
RECURSIVE DifferenceUpTo(_, _, _)
DifferenceUpTo(a, b, n) ==
    IF n = 0 THEN 0
    ELSE DifferenceUpTo(a, b, n - 1)
         + (IF a.bits[n - 1] # b.bits[n - 1] THEN 1 ELSE 0)
difference_skip_last(a, b) == DifferenceUpTo(a, b, a.size - 1)
difference(a, b) == DifferenceUpTo(a, b, a.size)

\* --------------------------------------------------------------- Shuffle
\* Shuffle(size, SHUFFLE_KEEP_SAME): shuffle index -> key index, identity.
Identity(size) == [i \in 0 .. size - 1 |-> i]
shuffle_keep_same(size) == [size |-> size, key_index |-> Identity(size)]

\* Shuffle(size, SHUFFLE_RANDOM): a Fisher-Yates shuffle of the identity whose
\* draws are the mixed-radix digits of the seed.
RECURSIVE FisherYates(_, _, _)
FisherYates(p, i, seed) ==
    IF i < 1 THEN p
    ELSE LET j == seed % (i + 1)
         IN  Bind([p EXCEPT ![i] = p[j], ![j] = p[i]],
                  LAMBDA q : FisherYates(q, i - 1, seed \div (i + 1)))
shuffle_random(size, seed) ==
    [size |-> size, key_index |-> FisherYates(Identity(size), size - 1, seed)]

\* ------------------------------------------------------------------ heapq
\* Items are <<block.size, block>>; tuples compare lexicographically and
\* blocks of equal size by identity (creation order).
ItemLess(x, y) == x[1] < y[1] \/ (x[1] = y[1] /\ x[2] < y[2])

At(h, p) == h[p + 1]
Put(h, p, v) == [h EXCEPT ![p + 1] = v]

RECURSIVE SiftDown(_, _, _, _)
SiftDown(h, startpos, pos, newitem) ==
    IF pos > startpos /\ ItemLess(newitem, At(h, (pos - 1) \div 2))
    THEN Bind(Put(h, pos, At(h, (pos - 1) \div 2)),
              LAMBDA g : SiftDown(g, startpos, (pos - 1) \div 2, newitem))
    ELSE Put(h, pos, newitem)

RECURSIVE SiftUpLoop(_, _, _)
SiftUpLoop(h, pos, newitem) ==
    LET endpos == Len(h)
        left  == 2 * pos + 1
        right == left + 1
        child == IF right < endpos /\ ~ItemLess(At(h, left), At(h, right))
                 THEN right ELSE left
    IN  IF left < endpos
        THEN Bind(Put(h, pos, At(h, child)),
                  LAMBDA g : SiftUpLoop(g, child, newitem))
        ELSE Bind(Put(h, pos, newitem), LAMBDA g : SiftDown(g, 0, pos, newitem))

heappush_append(h, item) == Append(h, item)
heappush(h, item) ==
    Bind(Append(h, item), LAMBDA g : SiftDown(g, 0, Len(g) - 1, item))

\* heappop: <<the popped item, the heap afterwards>>
heappop_keep(h) == <<h[1], h>>
heappop(h) ==
    LET lastelt == h[Len(h)]
        rest    == SubSeq(h, 1, Len(h) - 1)
    IN  IF rest = <<>> THEN <<lastelt, rest>>
        ELSE <<rest[1], Bind(Put(rest, 0, lastelt),
                             LAMBDA g : SiftUpLoop(g, 0, lastelt))>>

\* ---------------------------------------------------------------- Session
InSeq(x, s) == \E i \in 1 .. Len(s) : s[i] = x

\* Session.register_block: the loop over block.key_indexes.  An assertion
\* failure leaves the dictionary as the loop had made it so far.
RECURSIVE register_block_from(_, _, _, _)
register_block_from(map, block, idxs, i) ==
    IF i > Len(idxs) THEN [map |-> map, ok |-> TRUE]
    ELSE LET key_index == idxs[i]
         IN  IF key_index \in DOMAIN map
             THEN IF InSeq(block, map[key_index])
                  THEN [map |-> map, ok |-> FALSE]
                  ELSE Bind([map EXCEPT ![key_index] = Append(@, block)],
                            LAMBDA m : register_block_from(m, block, idxs, i + 1))
             ELSE Bind(map @@ (key_index :> <<block>>),
                       LAMBDA m : register_block_from(m, block, idxs, i + 1))

RECURSIVE register_block_unchecked_from(_, _, _, _)
register_block_unchecked_from(map, block, idxs, i) ==
    IF i > Len(idxs) THEN [map |-> map, ok |-> TRUE]
    ELSE LET key_index == idxs[i]
         IN  IF key_index \in DOMAIN map
             THEN Bind([map EXCEPT ![key_index] = Append(@, block)],
                       LAMBDA m : register_block_unchecked_from(m, block, idxs, i + 1))
             ELSE Bind(map @@ (key_index :> <<block>>),
                       LAMBDA m : register_block_unchecked_from(m, block, idxs, i + 1))

register_block_unchecked(map, block, idxs) ==
    register_block_unchecked_from(map, block, idxs, 1)
register_block_first_only(map, block, idxs) ==
    register_block_from(map, block, SubSeq(idxs, 1, 1), 1)
register_block(map, block, idxs) == register_block_from(map, block, idxs, 1)

\* Session.get_blocks_containing_key_index
get_blocks_containing_key_index_next(map, key_index) ==
    IF key_index + 1 \in DOMAIN map THEN map[key_index + 1] ELSE <<>>
get_blocks_containing_key_index(map, key_index) ==
    IF key_index \in DOMAIN map THEN map[key_index] ELSE <<>>

\* ------------------------------------------------------------------ Block
\* A block is [shuffle, start, end, parent, left, right, ref, top]: a range
\* [start, end) of shuffle indexes of the pass's shuffle, its place in the
\* hierarchy and the cached reference (Alice's) parity, None until known.
Size(blk) == blk.end - blk.start

key_indexes(st, b) ==
    LET blk == st.blocks[b]
    IN  [i \in 1 .. Size(blk) |-> st.shuffles[blk.shuffle].key_index[blk.start + i - 1]]

RECURSIVE ParityFrom(_, _, _)
ParityFrom(bits, idxs, i) ==
    IF i > Len(idxs) THEN 0
    ELSE (bits[idxs[i]] + ParityFrom(bits, idxs, i + 1)) % 2
Parity(bits, idxs) == ParityFrom(bits, idxs, 1)

Xor(a, b) == (a + b) % 2

\* The mock classical channel answers from alice_key.
ask_reference_parity(st, b) == Parity(alice.bits, key_indexes(st, b))

\* The reference parity is asked for when it is not yet cached.
ensure_reference_parity_uncached(st, b) ==
    [st EXCEPT
        !.blocks[b].ref = ask_reference_parity(st, b),
        !.channel = Append(@, <<"ask", st.blocks[b].shuffle,
                                st.blocks[b].start, st.blocks[b].end>>)]
ensure_reference_parity(st, b) ==
    IF st.blocks[b].ref # None THEN st
    ELSE [st EXCEPT
            !.blocks[b].ref = ask_reference_parity(st, b),
            !.channel = Append(@, <<"ask", st.blocks[b].shuffle,
                                    st.blocks[b].start, st.blocks[b].end>>)]

\* Block.error_parity, for a block whose reference parity is cached.
error_parity(st, b) ==
    IF Xor(Parity(st.key, key_indexes(st, b)), st.blocks[b].ref) = 1
    THEN ERRORS_ODD ELSE ERRORS_EVEN

\* The key indexes of the block at which the key differs from Alice's.
ErrorsIn(st, b) ==
    LET idxs == key_indexes(st, b)
    IN  {k \in {idxs[i] : i \in 1 .. Len(idxs)} : st.key[k] # alice.bits[k]}

\* Block creation: the new block is registered with the session.
new_block(st, shuffle, start, end, parent, top) ==
    LET b == Len(st.blocks) + 1 IN
    Bind([st EXCEPT !.blocks = Append(@,
              [shuffle |-> shuffle, start |-> start, end |-> end,
               parent |-> parent, left |-> NoBlock, right |-> NoBlock,
               ref |-> None, top |-> top])],
         LAMBDA s1 :
    Bind(register_block(s1.key_index_to_blocks, b, key_indexes(s1, b)),
         LAMBDA r :
    [s1 EXCEPT !.key_index_to_blocks = r.map, !.ok = st.ok /\ r.ok]))

\* Session.register_error_block
register_error_block_always(st, b) ==
    [st EXCEPT !.error_blocks = heappush(@, <<Size(st.blocks[b]), b>>)]
register_error_block_sub_only(st, b) ==
    IF ~parameters.sub_block_reuse /\ st.blocks[b].top THEN st
    ELSE [st EXCEPT !.error_blocks = heappush(@, <<Size(st.blocks[b]), b>>)]
register_error_block(st, b) ==
    IF ~parameters.sub_block_reuse /\ ~st.blocks[b].top THEN st
    ELSE [st EXCEPT !.error_blocks = heappush(@, <<Size(st.blocks[b]), b>>)]

\* After a bit flip: every other block over the flipped key index that now
\* has an odd number of errors is registered as an error block.
RECURSIVE notify_bit_flip(_, _, _, _)
notify_bit_flip(st, affected, i, flipped_block) ==
    IF i > Len(affected) THEN st
    ELSE IF affected[i] = flipped_block
         THEN notify_bit_flip(st, affected, i + 1, flipped_block)
         ELSE Bind(ensure_reference_parity(st, affected[i]), LAMBDA s1 :
              Bind(IF error_parity(s1, affected[i]) = ERRORS_ODD
                   THEN register_error_block(s1, affected[i]) ELSE s1,
                   LAMBDA s2 :
              notify_bit_flip(s2, affected, i + 1, flipped_block)))

\* Splitting: the two halves are created once and kept; the left half's
\* reference parity is asked for, the right half's is derived.
split_right_as_left(st, b) ==
    LET blk == st.blocks[b]
        mid == blk.start + ((Size(blk) + 1) \div 2)
    IN
    Bind(IF blk.left # NoBlock THEN st
         ELSE Bind(new_block(st, blk.shuffle, blk.start, mid, b, FALSE),
                   LAMBDA a :
              Bind(new_block(a, blk.shuffle, mid, blk.end, b, FALSE),
                   LAMBDA c :
              [c EXCEPT !.blocks[b].left = Len(st.blocks) + 1,
                        !.blocks[b].right = Len(st.blocks) + 2])),
         LAMBDA s1 :
    Bind(ensure_reference_parity(s1, s1.blocks[b].left), LAMBDA s2 :
    LET l == s2.blocks[b].left
        r == s2.blocks[b].right
    IN  IF s2.blocks[r].ref # None THEN s2
        ELSE [s2 EXCEPT !.blocks[r].ref = s2.blocks[l].ref]))
split_ask_both(st, b) ==
    LET blk == st.blocks[b]
        mid == blk.start + ((Size(blk) + 1) \div 2)
    IN
    Bind(IF blk.left # NoBlock THEN st
         ELSE Bind(new_block(st, blk.shuffle, blk.start, mid, b, FALSE),
                   LAMBDA a :
              Bind(new_block(a, blk.shuffle, mid, blk.end, b, FALSE),
                   LAMBDA c :
              [c EXCEPT !.blocks[b].left = Len(st.blocks) + 1,
                        !.blocks[b].right = Len(st.blocks) + 2])),
         LAMBDA s1 :
    Bind(ensure_reference_parity(s1, s1.blocks[b].left), LAMBDA s2 :
    ensure_reference_parity(s2, s2.blocks[b].right)))
split(st, b) ==
    LET blk == st.blocks[b]
        mid == blk.start + ((Size(blk) + 1) \div 2)
    IN
    Bind(IF blk.left # NoBlock THEN st
         ELSE Bind(new_block(st, blk.shuffle, blk.start, mid, b, FALSE),
                   LAMBDA a :
              Bind(new_block(a, blk.shuffle, mid, blk.end, b, FALSE),
                   LAMBDA c :
              [c EXCEPT !.blocks[b].left = Len(st.blocks) + 1,
                        !.blocks[b].right = Len(st.blocks) + 2])),
         LAMBDA s1 :
    Bind(ensure_reference_parity(s1, s1.blocks[b].left), LAMBDA s2 :
    LET l == s2.blocks[b].left
        r == s2.blocks[b].right
    IN  IF s2.blocks[r].ref # None THEN s2
        ELSE [s2 EXCEPT !.blocks[r].ref = Xor(s2.blocks[b].ref, s2.blocks[l].ref)]))

\* The record of one invocation: who called, the block's error parity and
\* erroneous key indexes at the call, whether it had been split before, and
\* what the call returned.
Call(st, b, by, parity, errors, resplit, ret) ==
    [st EXCEPT !.ret = ret,
               !.calls = Append(@, [block |-> b, by |-> by, parity |-> parity,
                                    errors |-> errors, resplit |-> resplit,
                                    ret |-> ret])]

\* Block.correct_one_bit.  On a block with an even number of errors it is a
\* no-operation that returns None.
RECURSIVE correct_one_bit(_, _, _)
correct_one_bit(st, b, by) ==
    Bind(ensure_reference_parity(st, b), LAMBDA s1 :
    Bind(error_parity(s1, b), LAMBDA parity :
    Bind(ErrorsIn(s1, b), LAMBDA errors :
    LET blk == s1.blocks[b] IN
    IF parity = ERRORS_EVEN THEN Call(s1, b, by, parity, errors, s1.blocks[b].left # NoBlock, None)
    ELSE IF Size(blk) = 1
    THEN LET key_index == key_indexes(s1, b)[1] IN
         Bind([s1 EXCEPT !.key = flip_bit(@, key_index)], LAMBDA s2 :
         Bind(notify_bit_flip(s2,
                  get_blocks_containing_key_index(
                      s2.key_index_to_blocks, key_index), 1, b),
              LAMBDA s3 : Call(s3, b, by, parity, errors, FALSE, blk.start)))
    ELSE Bind(split(s1, b), LAMBDA s2 :
         LET l == s2.blocks[b].left
             r == s2.blocks[b].right
         IN  Bind(IF error_parity(s2, l) = ERRORS_ODD
                  THEN correct_one_bit(s2, l, "bisection")
                  ELSE IF error_parity(s2, r) = ERRORS_ODD
                  THEN correct_one_bit(s2, r, "bisection")
                  ELSE [s2 EXCEPT !.ok = FALSE, !.ret = None],
                  LAMBDA s3 : Call(s3, b, by, parity, errors, blk.left # NoBlock, s3.ret))))))

\* Block.create_covering_blocks: consecutive top-level blocks of block_size
\* shuffle indexes, the last one possibly shorter, each registered.
RECURSIVE create_covering_blocks_from(_, _, _, _)
create_covering_blocks_from(st, shuffle, block_size, start) ==
    LET size == st.shuffles[shuffle].size IN
    IF start >= size THEN st
    ELSE LET end == IF start + block_size > size THEN size
                    ELSE start + block_size
         IN  Bind(new_block(st, shuffle, start, end, NoBlock, TRUE),
                  LAMBDA s1 : create_covering_blocks_from(s1, shuffle,
                                                          block_size, end))

\* ------------------------------------------------------ state and actions
NoKey == [size |-> 0, bits |-> <<>>]

\* The session state the operators above work on.
St == [key |-> bob.bits, shuffles |-> shuffles, blocks |-> blocks,
       key_index_to_blocks |-> key_index_to_blocks,
       error_blocks |-> error_blocks, channel |-> channel,
       calls |-> <<>>, ok |-> TRUE, ret |-> None]

Store(st) ==
    /\ bob' = [bob EXCEPT !.bits = st.key]
    /\ shuffles' = st.shuffles
    /\ blocks' = st.blocks
    /\ key_index_to_blocks' = st.key_index_to_blocks
    /\ error_blocks' = st.error_blocks
    /\ channel' = st.channel
    /\ calls' = st.calls

\* failed: the operation ended in an AssertionError.
Op(name, arg, ret, failed) ==
    [name |-> name, arg |-> arg, ret |-> ret, failed |-> failed]

\* Session.create_mock_session_and_key followed by Session.__init__.
Init ==
    \E key_size \in 1 .. MaxKeySize, key_seed \in 0 .. MaxKeySeed,
       nr_iterations \in 1 .. MaxIterations, sub_block_reuse \in BOOLEAN :
        /\ random_state = 0
        /\ running = 1
        /\ other = <<>>
        /\ pc = "created"
        /\ alice = create_random_key(key_size, key_seed)
        /\ bob = NoKey
        /\ parameters = [nr_iterations |-> nr_iterations,
                         sub_block_reuse |-> sub_block_reuse]
        /\ shuffles = <<>>
        /\ blocks = <<>>
        /\ key_index_to_blocks = <<>>
        /\ error_blocks = <<>>
        /\ channel = <<>>
        /\ iteration = 0
        /\ todo = <<>>
        /\ caller_calls = 0
        /\ op = Op("init", None, None, FALSE)
        /\ calls = <<>>

\* bob_key = alice_key.copy(error_count)
CopyKey ==
    /\ UNCHANGED peer
    /\ pc = "created"
    /\ \E error_count \in 0 .. alice.size + 1 :
        IF 0 <= error_count /\ error_count <= alice.size
        THEN \E bits_to_flip \in SUBSET (0 .. alice.size - 1) :
                /\ Cardinality(bits_to_flip) = error_count
                /\ \E r \in {copy(alice, bits_to_flip)} :
                        /\ alice' = r.self
                        /\ bob' = r.key
                /\ pc' = "ready"
                /\ op' = Op("copy", error_count, None, FALSE)
        ELSE /\ pc' = "failed"
             /\ op' = Op("copy", error_count, None, TRUE)
             /\ UNCHANGED <<alice, bob>>
    /\ UNCHANGED <<parameters, shuffles, blocks, key_index_to_blocks,
                   error_blocks, channel, iteration, todo, caller_calls, calls>>

\* correct_key, up to the first pass.
StartReconciliation ==
    /\ UNCHANGED peer
    /\ pc = "ready"
    /\ channel' = Append(channel, <<"start">>)
    /\ iteration' = 1
    /\ pc' = "pass"
    /\ op' = Op("start_reconciliation", None, None, FALSE)
    /\ calls' = <<>>
    /\ UNCHANGED <<alice, bob, parameters, shuffles, blocks,
                   key_index_to_blocks, error_blocks, todo, caller_calls>>

\* One iteration of the for loop up to "for block in blocks".
BeginPassShuffled ==
    /\ UNCHANGED peer
    /\ pc = "pass"
    /\ iteration <= parameters.nr_iterations
    /\ \E block_size \in 1 .. MaxBlockSize, shuffle_seed \in 0 .. MaxShuffleSeed :
        \E s2 \in {create_covering_blocks_from(
                        [St EXCEPT !.shuffles = Append(@,
                            IF iteration = 0 THEN shuffle_keep_same(bob.size)
                            ELSE shuffle_random(bob.size, shuffle_seed))],
                        Len(shuffles) + 1, block_size, 0)} :
            /\ Store(s2)
            /\ todo' = [i \in 1 .. Len(s2.blocks) - Len(blocks) |-> Len(blocks) + i]
            /\ pc' = IF s2.ok THEN "visit" ELSE "failed"
            /\ op' = Op("create_covering_blocks", block_size, None, ~s2.ok)
    /\ UNCHANGED <<alice, parameters, iteration, caller_calls>>
BeginPass ==
    /\ UNCHANGED peer
    /\ pc = "pass"
    /\ iteration <= parameters.nr_iterations
    /\ \E block_size \in 1 .. MaxBlockSize, shuffle_seed \in 0 .. MaxShuffleSeed :
        \E s2 \in {create_covering_blocks_from(
                        [St EXCEPT !.shuffles = Append(@,
                            IF iteration = 1 THEN shuffle_keep_same(bob.size)
                            ELSE shuffle_random(bob.size, shuffle_seed))],
                        Len(shuffles) + 1, block_size, 0)} :
            /\ Store(s2)
            /\ todo' = [i \in 1 .. Len(s2.blocks) - Len(blocks) |-> Len(blocks) + i]
            /\ pc' = IF s2.ok THEN "visit" ELSE "failed"
            /\ op' = Op("create_covering_blocks", block_size, None, ~s2.ok)
    /\ UNCHANGED <<alice, parameters, iteration, caller_calls>>

\* block.correct_one_bit() on the next top-level block.
VisitBlock ==
    /\ UNCHANGED peer
    /\ pc = "visit"
    /\ todo # <<>>
    /\ \E s1 \in {correct_one_bit(St, Head(todo), "correct_key")} :
           /\ Store(s1)
           /\ pc' = IF s1.ok THEN "drain" ELSE "failed"
           /\ op' = Op("correct_one_bit", Head(todo), s1.ret, ~s1.ok)
    /\ todo' = Tail(todo)
    /\ UNCHANGED <<alice, parameters, iteration, caller_calls>>

\* One iteration of the while loop of correct_registered_error_blocks.
pop_and_correct_unchecked(st) ==
    Bind(heappop(st.error_blocks), LAMBDA popped :
    Bind(ensure_reference_parity([st EXCEPT !.error_blocks = popped[2]],
                                 popped[1][2]), LAMBDA s2 :
    correct_one_bit(s2, popped[1][2], "drain")))
pop_and_correct_inverted(st) ==
    Bind(heappop(st.error_blocks), LAMBDA popped :
    Bind(ensure_reference_parity([st EXCEPT !.error_blocks = popped[2]],
                                 popped[1][2]), LAMBDA s2 :
    IF error_parity(s2, popped[1][2]) = ERRORS_EVEN
    THEN Bind(correct_one_bit(s2, popped[1][2], "drain"), LAMBDA s3 :
              [s3 EXCEPT !.ok = s3.ok /\ s3.ret # None])
    ELSE s2))
pop_and_correct(st) ==
    Bind(heappop(st.error_blocks), LAMBDA popped :
    Bind(ensure_reference_parity([st EXCEPT !.error_blocks = popped[2]],
                                 popped[1][2]), LAMBDA s2 :
    IF error_parity(s2, popped[1][2]) = ERRORS_ODD
    THEN Bind(correct_one_bit(s2, popped[1][2], "drain"), LAMBDA s3 :
              [s3 EXCEPT !.ok = s3.ok /\ s3.ret # None])
    ELSE s2))

DrainPop ==
    /\ UNCHANGED peer
    /\ pc \in {"drain", "caller_drain"}
    /\ error_blocks # <<>>
    /\ \E s1 \in {pop_and_correct(St)} :
           /\ Store(s1)
           /\ pc' = IF s1.ok THEN pc ELSE "failed"
           /\ op' = Op("pop", heappop(error_blocks)[1][2], s1.ret, ~s1.ok)
    /\ UNCHANGED <<alice, parameters, iteration, todo, caller_calls>>

\* The while loop ends; on to the next block or the next iteration.
DrainReturnEarly ==
    /\ UNCHANGED peer
    /\ pc \in {"drain", "caller_drain"}
    /\ IF pc = "caller_drain"
       THEN pc' = "caller" /\ iteration' = iteration
       ELSE IF todo # <<>>
       THEN pc' = "visit" /\ iteration' = iteration
       ELSE pc' = "pass" /\ iteration' = iteration + 1
    /\ op' = Op("drained", None, None, FALSE)
    /\ calls' = <<>>
    /\ UNCHANGED <<alice, bob, parameters, shuffles, blocks,
                   key_index_to_blocks, error_blocks, channel, todo, caller_calls>>
DrainReturn ==
    /\ UNCHANGED peer
    /\ pc \in {"drain", "caller_drain"}
    /\ error_blocks = <<>>
    /\ IF pc = "caller_drain"
       THEN pc' = "caller" /\ iteration' = iteration
       ELSE IF todo # <<>>
       THEN pc' = "visit" /\ iteration' = iteration
       ELSE pc' = "pass" /\ iteration' = iteration + 1
    /\ op' = Op("drained", None, None, FALSE)
    /\ calls' = <<>>
    /\ UNCHANGED <<alice, bob, parameters, shuffles, blocks,
                   key_index_to_blocks, error_blocks, channel, todo, caller_calls>>

\* The for loop is over.
EndReconciliationOneEarly ==
    /\ UNCHANGED peer
    /\ pc = "pass"
    /\ iteration >= parameters.nr_iterations
    /\ channel' = Append(channel, <<"end">>)
    /\ pc' = "done"
    /\ op' = Op("end_reconciliation", None, None, FALSE)
    /\ calls' = <<>>
    /\ UNCHANGED <<alice, bob, parameters, shuffles, blocks,
                   key_index_to_blocks, error_blocks, iteration, todo, caller_calls>>
EndReconciliation ==
    /\ UNCHANGED peer
    /\ pc = "pass"
    /\ iteration > parameters.nr_iterations
    /\ channel' = Append(channel, <<"end">>)
    /\ pc' = "done"
    /\ op' = Op("end_reconciliation", None, None, FALSE)
    /\ calls' = <<>>
    /\ UNCHANGED <<alice, bob, parameters, shuffles, blocks,
                   key_index_to_blocks, error_blocks, iteration, todo, caller_calls>>

\* A caller registers a block again: session.register_block(block).
RegisterBlockAgain ==
    /\ UNCHANGED peer
    /\ pc = "done"
    /\ \E block \in 1 .. Len(blocks) :
        \E r \in {register_block(key_index_to_blocks, block,
                                  key_indexes(St, block))} :
            /\ key_index_to_blocks' = r.map
            /\ pc' = IF r.ok THEN "done" ELSE "failed"
            /\ op' = Op("register_block", block, None, ~r.ok)
    /\ calls' = <<>>
    /\ UNCHANGED <<alice, bob, parameters, shuffles, blocks, error_blocks,
                   channel, iteration, todo, caller_calls>>

\* The session's and the blocks' operations called one by one, as the unit
\* tests do, instead of through correct_key.
CallerCreateCoveringBlocks ==
    /\ UNCHANGED peer
    /\ pc \in {"ready", "caller"}
    /\ Len(shuffles) < parameters.nr_iterations
    /\ caller_calls = 0
    /\ \E block_size \in 1 .. MaxBlockSize, shuffle_seed \in 0 .. MaxShuffleSeed :
        \E s2 \in {create_covering_blocks_from(
                        [St EXCEPT !.shuffles = Append(@,
                            IF shuffles = <<>> THEN shuffle_keep_same(bob.size)
                            ELSE shuffle_random(bob.size, shuffle_seed))],
                        Len(shuffles) + 1, block_size, 0)} :
            /\ Store(s2)
            /\ pc' = IF s2.ok THEN "caller" ELSE "failed"
            /\ op' = Op("create_covering_blocks", block_size, None, ~s2.ok)
    /\ UNCHANGED <<alice, parameters, iteration, todo, caller_calls>>

CallerCorrectOneBit ==
    /\ UNCHANGED peer
    /\ pc = "caller"
    /\ caller_calls < MaxCallerCalls
    /\ caller_calls' = caller_calls + 1
    /\ \E block \in 1 .. Len(blocks) :
        \E s1 \in {correct_one_bit(St, block, "caller")} :
            /\ Store(s1)
            /\ pc' = IF s1.ok THEN "caller" ELSE "failed"
            /\ op' = Op("correct_one_bit", block, s1.ret, ~s1.ok)
    /\ UNCHANGED <<alice, parameters, iteration, todo>>

CallerRegisterErrorBlock ==
    /\ UNCHANGED peer
    /\ pc = "caller"
    /\ caller_calls < MaxCallerCalls
    /\ caller_calls' = caller_calls + 1
    /\ \E block \in 1 .. Len(blocks) :
        /\ \E s1 \in {register_error_block(St, block)} : Store(s1)
        /\ op' = Op("register_error_block", block, None, FALSE)
    /\ UNCHANGED <<pc, alice, parameters, iteration, todo>>

CallerCorrectRegisteredErrorBlocks ==
    /\ UNCHANGED peer
    /\ pc = "caller"
    /\ error_blocks # <<>>
    /\ pc' = "caller_drain"
    /\ op' = Op("correct_registered_error_blocks", None, None, FALSE)
    /\ calls' = <<>>
    /\ UNCHANGED <<alice, bob, parameters, shuffles, blocks,
                   key_index_to_blocks, error_blocks, channel, iteration, todo,
                   caller_calls>>

Next ==
    \/ CopyKey
    \/ StartReconciliation
    \/ BeginPass
    \/ VisitBlock
    \/ DrainPop
    \/ DrainReturn
    \/ EndReconciliation
    \/ RegisterBlockAgain

Spec == Init /\ [][Next]_vars

NextCaller ==
    \/ Next
    \/ CallerCreateCoveringBlocks
    \/ CallerCorrectOneBit
    \/ CallerRegisterErrorBlock
    \/ CallerCorrectRegisteredErrorBlocks

\* The session used both ways, on keys of the largest size and with two
\* passes, the least that makes a correction cascade into another block.
InitCaller ==
    /\ Init
    /\ alice = create_random_key(MaxKeySize, MaxKeySeed)
    /\ parameters.nr_iterations = 2

SpecCaller == InitCaller /\ [][NextCaller]_vars

TypeOK ==
    /\ pc \in {"created", "ready", "pass", "visit", "drain", "done", "failed",
             "caller", "caller_drain"}
    /\ bob.size \in {0, alice.size}

\* correct_registered_error_blocks keeps running once it has been called.
SpecCallerLive == SpecCaller /\ WF_vars(DrainPop) /\ WF_vars(DrainReturn)

\* One block over the whole key, as in the bisection scenario: keys of 2^k
\* bits with a few errors, one pass whose block size is the key size.
InitBisection ==
    \E k \in 0 .. MaxLog2KeySize, key_seed \in 0 .. MaxKeySeed,
       sub_block_reuse \in BOOLEAN :
        /\ random_state = 0
        /\ running = 1
        /\ other = <<>>
        /\ pc = "created"
        /\ alice = create_random_key(Pow2(k), key_seed)
        /\ bob = NoKey
        /\ parameters = [nr_iterations |-> 1,
                         sub_block_reuse |-> sub_block_reuse]
        /\ shuffles = <<>>
        /\ blocks = <<>>
        /\ key_index_to_blocks = <<>>
        /\ error_blocks = <<>>
        /\ channel = <<>>
        /\ iteration = 0
        /\ todo = <<>>
        /\ caller_calls = 0
        /\ op = Op("init", None, None, FALSE)
        /\ calls = <<>>

\* bob_key = alice_key.copy(error_count) with few errors.
CopyKeyFewErrors ==
    /\ UNCHANGED peer
    /\ pc = "created"
    /\ \E error_count \in 0 .. MaxErrorCount :
        /\ error_count <= alice.size
        /\ \E bits_to_flip \in SUBSET (0 .. alice.size - 1) :
                /\ Cardinality(bits_to_flip) = error_count
                /\ \E r \in {copy(alice, bits_to_flip)} :
                        /\ alice' = r.self
                        /\ bob' = r.key
        /\ pc' = "ready"
        /\ op' = Op("copy", error_count, None, FALSE)
    /\ UNCHANGED <<parameters, shuffles, blocks, key_index_to_blocks,
                   error_blocks, channel, iteration, todo, caller_calls, calls>>

\* The iteration of the for loop when block_size_function returns key.size.
BeginPassOneBlock ==
    /\ UNCHANGED peer
    /\ pc = "pass"
    /\ iteration <= parameters.nr_iterations
    /\ \E shuffle_seed \in 0 .. MaxShuffleSeed :
        \E s2 \in {create_covering_blocks_from(
                        [St EXCEPT !.shuffles = Append(@,
                            IF iteration = 1 THEN shuffle_keep_same(bob.size)
                            ELSE shuffle_random(bob.size, shuffle_seed))],
                        Len(shuffles) + 1, bob.size, 0)} :
            /\ Store(s2)
            /\ todo' = [i \in 1 .. Len(s2.blocks) - Len(blocks) |-> Len(blocks) + i]
            /\ pc' = IF s2.ok THEN "visit" ELSE "failed"
            /\ op' = Op("create_covering_blocks", bob.size, None, ~s2.ok)
    /\ UNCHANGED <<alice, parameters, iteration, caller_calls>>

NextBisection ==
    \/ CopyKeyFewErrors
    \/ StartReconciliation
    \/ BeginPassOneBlock
    \/ VisitBlock
    \/ DrainReturn
    \/ EndReconciliation

SpecBisection == InitBisection /\ [][NextBisection]_vars

\* Two sessions in one process, each made by create_mock_session_and_key
\* with the same arguments and run for one pass; the operations of the two
\* are interleaved at will.  The generator of the random module starts
\* seeded.
InitTwoSessions ==
    \E sub_block_reuse \in BOOLEAN :
        /\ random_state = 0
        /\ running = 1
        /\ pc = "created"
        /\ alice = create_random_key(MaxKeySize, MaxKeySeed)
        /\ bob = NoKey
        /\ parameters = [nr_iterations |-> 1,
                         sub_block_reuse |-> sub_block_reuse]
        /\ shuffles = <<>>
        /\ blocks = <<>>
        /\ key_index_to_blocks = <<>>
        /\ error_blocks = <<>>
        /\ channel = <<>>
        /\ iteration = 0
        /\ todo = <<>>
        /\ caller_calls = 0
        /\ op = Op("init", None, None, FALSE)
        /\ calls = <<>>
        /\ other = session

\* The other session's operations are executed from now on.
SwitchSession ==
    /\ other # <<>>
    /\ running' = 3 - running
    /\ other' = session
    /\ pc' = other[1]
    /\ alice' = other[2]
    /\ bob' = other[3]
    /\ parameters' = other[4]
    /\ shuffles' = other[5]
    /\ blocks' = other[6]
    /\ key_index_to_blocks' = other[7]
    /\ error_blocks' = other[8]
    /\ channel' = other[9]
    /\ iteration' = other[10]
    /\ todo' = other[11]
    /\ caller_calls' = other[12]
    /\ op' = other[13]
    /\ calls' = other[14]
    /\ UNCHANGED random_state

\* bob_key = alice_key.copy(error_count), the sample drawn from the
\* generator of the random module.
CopyKeySeeded ==
    /\ pc = "created"
    /\ \E error_count \in 0 .. alice.size :
        \E drawn \in {random_sample(random_state, alice.size, error_count)} :
            /\ \E r \in {copy(alice, drawn.sample)} :
                    /\ alice' = r.self
                    /\ bob' = r.key
            /\ random_state' = drawn.state
            /\ pc' = "ready"
            /\ op' = Op("copy", error_count, None, FALSE)
    /\ UNCHANGED <<parameters, shuffles, blocks, key_index_to_blocks,
                   error_blocks, channel, iteration, todo, caller_calls, calls,
                   running, other>>

NextTwoSessions ==
    \/ SwitchSession
    \/ CopyKeySeeded
    \/ StartReconciliation
    \/ BeginPass
    \/ VisitBlock
    \/ DrainReturn
    \/ EndReconciliation

SpecTwoSessions == InitTwoSessions /\ [][NextTwoSessions]_vars

\* session.register_error_block(block) called on any block once correct_key
\* has returned, as many times as the pending queue has room for in the
\* model.
RegisterErrorBlock ==
    /\ UNCHANGED peer
    /\ pc = "done"
    /\ Len(error_blocks) < MaxPending
    /\ \E block \in 1 .. Len(blocks) :
        /\ \E s1 \in {register_error_block(St, block)} : Store(s1)
        /\ op' = Op("register_error_block", block, None, FALSE)
    /\ UNCHANGED <<pc, alice, parameters, iteration, todo, caller_calls>>

NextRegistration ==
    \/ CopyKey
    \/ StartReconciliation
    \/ BeginPass
    \/ VisitBlock
    \/ DrainPop
    \/ DrainReturn
    \/ EndReconciliation
    \/ RegisterErrorBlock

SpecRegistration == InitCaller /\ [][NextRegistration]_vars

\* ------------------------------------------------------------- properties
Drained == pc \in {"visit", "pass", "caller"} /\ error_blocks = <<>>
Draining == pc \in {"drain", "caller_drain"}

Count(s, x) == Cardinality({i \in 1 .. Len(s) : s[i] = x})
Covered(b) ==
    {shuffles[blocks[b].shuffle].key_index[p] :
        p \in blocks[b].start .. blocks[b].end - 1}
\* The session state after the step.
StNext == [St EXCEPT !.key = bob'.bits, !.shuffles = shuffles',
                     !.blocks = blocks']
IsAsk(e) == e[1] = "ask"

\* C1: correct_one_bit on a block (of any size and shuffle) with exactly one
\* erroneous key index among those it covers flips exactly that bit of Bob's
\* key and no other, and returns the shuffle index of that bit; a block with
\* no erroneous key index has error parity EVEN.
C1_BisectionCorrectness ==
    [][/\ \A i \in 1 .. Len(calls') :
            Cardinality(calls'[i].errors) = 1 =>
                \E k \in calls'[i].errors :
                    /\ bob'.bits = [bob.bits EXCEPT ![k] = 1 - bob.bits[k]]
                    /\ calls'[i].ret >= blocks'[calls'[i].block].start
                    /\ calls'[i].ret < blocks'[calls'[i].block].end
                    /\ shuffles'[blocks'[calls'[i].block].shuffle]
                           .key_index[calls'[i].ret] = k
       /\ \A b \in 1 .. Len(blocks') :
            (blocks'[b].ref # None /\ ErrorsIn(StNext, b) = {})
                => error_parity(StNext, b) = ERRORS_EVEN
      ]_vars

C1_Witness ==
    \E i \in 1 .. Len(calls) :
        /\ Cardinality(calls[i].errors) = 1
        /\ calls[i].by # "bisection"
        /\ Size(blocks[calls[i].block]) > 1
        /\ blocks[calls[i].block].shuffle > 1
        /\ calls[i].ret # None

\* C2: with the channel answering Alice's true parities, no step of
\* correct_key increases the Hamming distance between Bob's and Alice's key,
\* and a step in which a correct_one_bit (on a top-level block or from the
\* cascade drain) corrected a bit strictly decreases it.
C2_HammingDistance ==
    [][pc # "created" =>
        /\ difference(bob', alice') <= difference(bob, alice)
        /\ \A i \in 1 .. Len(calls') :
              calls'[i].ret # None
                  => difference(bob', alice') < difference(bob, alice)
      ]_vars

C2_Witness ==
    \E i \in 1 .. Len(calls) :
        /\ calls[i].by = "drain"
        /\ calls[i].ret # None
        /\ blocks[calls[i].block].shuffle < Len(shuffles)

\* C3: once correct_registered_error_blocks has been called, whatever the
\* pending queue holds, it eventually returns, and it returns only with the
\* pending queue empty (and not through a failed assertion).
C3_CascadeTermination ==
    /\ Draining ~> Drained
    /\ [][Draining /\ ~Draining' => error_blocks' = <<>> /\ pc' # "failed"]_vars

C3_Witness ==
    /\ pc = "caller_drain"
    /\ Len(error_blocks) >= 2
    /\ \E i \in 1 .. Len(calls) : calls[i].by = "drain" /\ calls[i].ret # None

\* C4: the channel is asked for the reference parity of a given range of a
\* given shuffle at most once in the lifetime of the session.
C4_AskedAtMostOnce ==
    Cardinality({channel[i] : i \in {j \in 1 .. Len(channel) : IsAsk(channel[j])}})
        = Cardinality({j \in 1 .. Len(channel) : IsAsk(channel[j])})

C4_Witness ==
    /\ \E i \in 1 .. Len(calls) :
          /\ calls[i].by = "drain"
          /\ calls[i].resplit
          /\ calls[i].ret # None
    /\ ~parameters.sub_block_reuse

\* C5 as stated: correct_one_bit is never called by correct_key or by the
\* cascade drain on a block whose error parity is EVEN.
C5_NeverCalledOnEven ==
    \A i \in 1 .. Len(calls) :
        calls[i].by \in {"correct_key", "drain"} => calls[i].parity = ERRORS_ODD

\* C5 amended: the cascade drain calls correct_one_bit only on a block whose
\* error parity is ODD; correct_key calls it on every top-level block
\* without looking at the parity, and the call on an EVEN block flips no bit,
\* queues nothing and returns None.
C5_DrainChecksCorrectKeyDoesNot ==
    [][/\ \A i \in 1 .. Len(calls') :
            calls'[i].by = "drain" => calls'[i].parity = ERRORS_ODD
       /\ (pc = "visit" /\ pc' # pc) =>
            \E i \in 1 .. Len(calls') :
                /\ calls'[i].by = "correct_key"
                /\ calls'[i].block = Head(todo)
                /\ calls'[i].parity = ERRORS_EVEN =>
                      /\ calls'[i].ret = None
                      /\ bob' = bob
                      /\ error_blocks' = error_blocks
                      /\ Len(calls') = 1
      ]_vars

C5_Witness ==
    /\ \E i \in 1 .. Len(calls) :
          calls[i].by = "correct_key" /\ calls[i].parity = ERRORS_EVEN
    /\ difference(bob, alice) > 0

\* C6: in a run of correct_key that returns, start_reconciliation is
\* signalled once and before every ask_reference_parity, end_reconciliation
\* once and after every ask_reference_parity, and the configured number of
\* passes is executed in between.
C6_ReconciliationBracket ==
    /\ Count(channel, <<"start">>) <= 1
    /\ Count(channel, <<"end">>) <= 1
    /\ \A i \in 1 .. Len(channel) :
          IsAsk(channel[i]) =>
              /\ channel[1] = <<"start">>
              /\ \A j \in 1 .. i : channel[j] # <<"end">>
    /\ channel # <<>> => channel[1] = <<"start">>
    /\ pc = "done" =>
          /\ Count(channel, <<"start">>) = 1
          /\ Count(channel, <<"end">>) = 1
          /\ channel[Len(channel)] = <<"end">>
          /\ Len(shuffles) = parameters.nr_iterations

C6_Witness ==
    /\ pc = "done"
    /\ parameters.nr_iterations = MaxIterations
    /\ Len(channel) > 3

\* C7: every block created so far, top-level or made by bisection, with
\* sub-block reuse enabled or disabled, is in the list of exactly the key
\* indexes it covers, once in each.
C7_RegistryInvariant ==
    \A b \in 1 .. Len(blocks) :
        LET covered == Covered(b) IN
        \A k \in 0 .. bob.size - 1 :
            Count(get_blocks_containing_key_index(key_index_to_blocks, k), b)
                = IF k \in covered THEN 1 ELSE 0

C7_Witness ==
    /\ ~parameters.sub_block_reuse
    /\ Len(shuffles) > 1
    /\ \E b \in 1 .. Len(blocks) : ~blocks[b].top /\ blocks[b].shuffle > 1
    /\ \E b \in 1 .. Len(blocks) : ~blocks[b].top /\ blocks[b].shuffle = 1

\* C8: register_block on a block that is already in the list of a key index
\* it covers fails, and leaves every list as it was.
C8_DuplicateRegistrationFails ==
    [][op'.name = "register_block" =>
        /\ \E k \in Covered(op'.arg) :
              InSeq(op'.arg, get_blocks_containing_key_index(key_index_to_blocks, k))
        /\ op'.failed
        /\ pc' = "failed"
        /\ key_index_to_blocks' = key_index_to_blocks
      ]_vars

C8_Witness ==
    /\ op.name = "register_block"
    /\ op.failed
    /\ Size(blocks[op.arg]) > 1

\* C9: Key.copy(error_count) leaves the key it is called on as it was.
C9_CopyLeavesOriginalUnchanged ==
    [][op'.name = "copy" => alice' = alice]_vars

\* C10: for 0 <= error_count <= size, the key returned by
\* Key.copy(error_count) has the size of the original and differs from the
\* original, as it is after the call, in exactly error_count bits; a larger
\* error_count fails.
C10_CopyDifference ==
    [][op'.name = "copy" =>
        IF op'.arg <= alice.size
        THEN /\ ~op'.failed
             /\ bob'.size = alice.size
             /\ alice'.size = alice.size
             /\ difference(alice', bob') = op'.arg
        ELSE /\ op'.failed
             /\ pc' = "failed"
             /\ bob' = bob
      ]_vars

C10_Witness ==
    /\ op.name = "copy"
    /\ ~op.failed
    /\ op.arg >= 2
    /\ op.arg < alice.size

RECURSIVE Log2(_)
Log2(n) == IF n <= 1 THEN 0 ELSE 1 + Log2(n \div 2)

\* What the step asked the channel.
Asked == {channel'[j] : j \in Len(channel) + 1 .. Len(channel')}
RangeOf(blk) == <<"ask", blk.shuffle, blk.start, blk.end>>
IsLeft(bs, b) == bs[b].parent # NoBlock /\ bs[bs[b].parent].left = b
IsRight(bs, b) == bs[b].parent # NoBlock /\ bs[bs[b].parent].right = b

C12_SessionsIndependent ==
    /\ [][/\ running' = running => other' = other
          /\ (running' = running /\ op'.name = "copy" /\ pc = "created") =>
                \E r \in {copy(alice, random_sample(0, alice.size, op'.arg).sample)} :
                    alice' = r.self /\ bob' = r.key
         ]_vars
    /\ [](( /\ pc = "done"
            /\ other[1] = "done"
            /\ difference(alice, bob) = difference(other[2], other[3])
            /\ Size(blocks[1]) = Size(other[6][1]))
           => bob = other[3])

\* C13: a pop of correct_registered_error_blocks whose block has an even
\* number of errors at that moment removes the entry and nothing else: no
\* key bit is flipped, nothing is pushed, correct_one_bit is not called; a
\* pop whose block has an odd number of errors calls correct_one_bit on it,
\* which flips a bit and returns its position.
C13_RecheckAtPop ==
    [][op'.name = "pop" =>
        LET popped == heappop(error_blocks)
            block == popped[1][2]
        IN  /\ op'.arg = block
            /\ ~op'.failed
            /\ IF Cardinality(ErrorsIn(St, block)) % 2 = 0
               THEN /\ bob' = bob
                    /\ error_blocks' = popped[2]
                    /\ calls' = <<>>
                    /\ key_index_to_blocks' = key_index_to_blocks
               ELSE /\ calls' # <<>>
                    /\ calls'[Len(calls')].block = block
                    /\ calls'[Len(calls')].by = "drain"
                    /\ calls'[Len(calls')].ret # None
                    /\ op'.ret = calls'[Len(calls')].ret
                    /\ op'.ret >= blocks[block].start
                    /\ op'.ret < blocks[block].end
                    /\ difference(bob', alice') = difference(bob, alice) - 1
      ]_vars

\* An entry was discarded although the keys still differ.
C13_Witness ==
    /\ op.name = "pop"
    /\ ~op.failed
    /\ calls = <<>>
    /\ difference(bob, alice) > 0

\* C14: whenever correct_key stands between two top-level blocks, between
\* two passes or has returned (the drain after a top-level block is over),
\* every top-level block of an earlier pass and every visited top-level
\* block of this pass has an even number of errors and error parity EVEN;
\* after the return that is every top-level block of every pass.
C14_TopBlocksEvenAfterDrain ==
    pc \in {"visit", "pass", "done"} =>
        \A b \in 1 .. Len(blocks) :
            (blocks[b].top /\ ~InSeq(b, todo)) =>
                /\ blocks[b].ref # None
                /\ error_parity(St, b) = ERRORS_EVEN
                /\ Cardinality(ErrorsIn(St, b)) % 2 = 0

\* A drain of the second pass is over, a block of the first pass has been
\* bisected, and errors are still left in the key.
C14_Witness ==
    /\ pc = "visit"
    /\ op.name = "drained"
    /\ iteration = 2
    /\ difference(bob, alice) > 0
    /\ \E b \in 1 .. Len(blocks) :
          blocks[b].top /\ blocks[b].shuffle = 1 /\ blocks[b].left # NoBlock

\* C15: the pending queue is empty whenever correct_key is about to call
\* correct_one_bit on a top-level block, is between two passes or has
\* returned, and the call on a top-level block is followed by the drain
\* whether or not it corrected a bit.
C15_QueueEmptyBetweenBlocks ==
    /\ [](pc \in {"visit", "pass", "done"} => error_blocks = <<>>)
    /\ [][pc = "visit" /\ pc' # "failed" =>
            /\ pc' = "drain"
            /\ op'.name = "correct_one_bit"
            /\ error_blocks = <<>>
         ]_vars

\* The drain has been entered after a top-level block of the second pass on
\* which correct_one_bit corrected nothing.
C15_Witness ==
    /\ pc = "drain"
    /\ op.name = "correct_one_bit"
    /\ op.ret = None
    /\ iteration = 2
    /\ todo # <<>>
    /\ difference(bob, alice) > 0

\* Whether the block is pushed when registered as an error block.
Eligible(blk) == blk.top \/ parameters.sub_block_reuse
Entries(heap, b) == {j \in 1 .. Len(heap) : heap[j][2] = b}

\* C16: right after correct_one_bit has flipped the bit at a key index,
\* every other block over that index (each is registered for it) that is
\* eligible for the cascade and now has an odd number of errors has an
\* entry in the pending queue, and the flipped block has gained no entry.
C16_CascadePropagation ==
    [][\A n \in 1 .. Len(calls') :
          LET c == calls'[n]
              flipped == blocks'[c.block]
              i == shuffles'[flipped.shuffle].key_index[flipped.start]
          IN  (c.ret # None /\ Size(flipped) = 1) =>
                /\ bob'.bits[i] # bob.bits[i]
                /\ \A b \in 1 .. Len(blocks') :
                      (/\ b # c.block
                       /\ \E j \in 1 .. Size(blocks'[b]) :
                             key_indexes(StNext, b)[j] = i
                       /\ Eligible(blocks'[b])
                       /\ Cardinality(ErrorsIn(StNext, b)) % 2 = 1)
                      => /\ Entries(error_blocks', b) # {}
                         /\ blocks'[b].ref # None
                /\ Cardinality(Entries(error_blocks', c.block))
                      <= Cardinality(Entries(error_blocks, c.block))
      ]_vars

\* A flip has just queued a block of an earlier pass.
C16_Witness ==
    \E n \in 1 .. Len(calls) :
        /\ calls[n].ret # None
        /\ Size(blocks[calls[n].block]) = 1
        /\ \E j \in 1 .. Len(error_blocks) :
              /\ blocks[error_blocks[j][2]].shuffle
                    < blocks[calls[n].block].shuffle
              /\ Cardinality(ErrorsIn(St, error_blocks[j][2])) % 2 = 1
              /\ shuffles[blocks[calls[n].block].shuffle]
                    .key_index[blocks[calls[n].block].start]
                      \in Covered(error_blocks[j][2])

\* C17: the entry a pop of correct_registered_error_blocks returns is for a
\* block no larger than the block of any entry pending at that moment; among
\* entries for blocks of that size it is the one for the block created
\* first, and the comparison of equal sizes does not make the pop fail.
C17_ShortestBlockFirst ==
    [][op'.name = "pop" =>
        /\ ~op'.failed
        /\ \A j \in 1 .. Len(error_blocks) :
              /\ error_blocks[j][1] = Size(blocks[error_blocks[j][2]])
              /\ Size(blocks[op'.arg]) <= Size(blocks[error_blocks[j][2]])
              /\ Size(blocks[op'.arg]) = Size(blocks[error_blocks[j][2]])
                    => op'.arg <= error_blocks[j][2]
        /\ Entries(error_blocks, op'.arg) # {}
      ]_vars

\* After a pop, an entry for a larger block and an entry for another block of
\* the popped block's size are still pending.
C17_Witness ==
    /\ op.name = "pop"
    /\ \E j \in 1 .. Len(error_blocks) :
          error_blocks[j][1] > Size(blocks[op.arg])
    /\ \E j \in 1 .. Len(error_blocks) :
          /\ error_blocks[j][1] = Size(blocks[op.arg])
          /\ error_blocks[j][2] # op.arg

\* C18: with sub-block reuse disabled every entry of the pending queue is
\* for a top-level block, and register_error_block on another block leaves
\* the queue as it was; with reuse enabled, and for a top-level block in any
\* case, register_error_block adds exactly one entry for the block, also
\* when the block already has an entry.  It changes nothing else.
C18_OnlyTopBlocksWithoutReuse ==
    /\ [](~parameters.sub_block_reuse =>
            \A j \in 1 .. Len(error_blocks) : blocks[error_blocks[j][2]].top)
    /\ [][op'.name = "register_error_block" =>
            /\ IF ~parameters.sub_block_reuse /\ ~blocks[op'.arg].top
               THEN error_blocks' = error_blocks
               ELSE /\ Len(error_blocks') = Len(error_blocks) + 1
                    /\ \A b \in 1 .. Len(blocks) :
                          Cardinality(Entries(error_blocks', b))
                            = Cardinality(Entries(error_blocks, b))
                              + (IF b = op'.arg THEN 1 ELSE 0)
            /\ bob' = bob
            /\ blocks' = blocks
            /\ channel' = channel
            /\ key_index_to_blocks' = key_index_to_blocks
         ]_vars

\* With reuse enabled a sub-block was registered while it already had an
\* entry.
C18_Witness ==
    /\ parameters.sub_block_reuse
    /\ op.name = "register_error_block"
    /\ ~blocks[op.arg].top
    /\ Cardinality(Entries(error_blocks, op.arg)) = 2

\* The blocks and shuffles after the step with the key before it: the
\* session as it is while the step's call bisects, before its one flip.
StSplit == [St EXCEPT !.shuffles = shuffles', !.blocks = blocks']
CalledOn(b) == {n \in 1 .. Len(calls') : calls'[n].block = b}

\* C19: when correct_one_bit splits a block of more than one bit with an odd
\* number of errors, the halves partition it, the parity of Bob's key over
\* the block is the XOR of his parities over the halves, exactly one half
\* has error parity ODD, the recursion goes into that half and not into the
\* other; and no call ends in the fatal state of finding no ODD half.
C19_BisectionInvariant ==
    [][\A n \in 1 .. Len(calls') :
          LET c == calls'[n]
              blk == blocks'[c.block]
              l == blk.left
              r == blk.right
          IN  /\ ~op'.failed
              /\ (c.parity = ERRORS_ODD /\ Size(blk) > 1) =>
                   /\ l # NoBlock /\ r # NoBlock
                   /\ blocks'[l].start = blk.start
                   /\ blocks'[l].end = blocks'[r].start
                   /\ blocks'[r].end = blk.end
                   /\ Size(blocks'[l]) >= 1 /\ Size(blocks'[r]) >= 1
                   /\ Parity(bob.bits, key_indexes(StSplit, c.block))
                        = Xor(Parity(bob.bits, key_indexes(StSplit, l)),
                              Parity(bob.bits, key_indexes(StSplit, r)))
                   /\ (error_parity(StSplit, l) = ERRORS_ODD)
                        # (error_parity(StSplit, r) = ERRORS_ODD)
                   /\ \A h \in {l, r} :
                        IF error_parity(StSplit, h) = ERRORS_ODD
                        THEN \E m \in CalledOn(h) :
                                /\ calls'[m].by = "bisection"
                                /\ calls'[m].parity = ERRORS_ODD
                                /\ calls'[m].ret = c.ret
                        ELSE CalledOn(h) = {}
      ]_vars

\* A block of three bits with three errors has been bisected into its
\* right half.
C19_Witness ==
    \E n \in 1 .. Len(calls) :
        /\ calls[n].by # "bisection"
        /\ Cardinality(calls[n].errors) = 3
        /\ calls[n].ret = blocks[calls[n].block].end - 1

\* The top-level blocks of a pass, in creation order.
TopBlocks(p) == {b \in 1 .. Len(blocks) : blocks[b].top /\ blocks[b].shuffle = p}

\* C20: the top-level blocks of every pass are consecutive ranges of shuffle
\* indexes from 0 to the key size without gap or overlap, every key index is
\* covered by exactly one of them, all but the last have one size and the
\* last has between 1 and that many bits; create_covering_blocks makes
\* them of the block size asked for, and the first pass is not shuffled.
C20_CoveringBlocks ==
    /\ [](\A p \in 1 .. Len(shuffles) :
            LET top == TopBlocks(p)
                first == CHOOSE b \in top : \A c \in top : b <= c
                last == CHOOSE b \in top : \A c \in top : c <= b
                covered == [b \in top |-> Covered(b)]
            IN  /\ top # {}
                /\ blocks[first].start = 0
                /\ blocks[last].end = bob.size
                /\ \A b \in top :
                      /\ b # last => /\ b + 1 \in top
                                      /\ blocks[b + 1].start = blocks[b].end
                                      /\ Size(blocks[b]) = Size(blocks[first])
                      /\ Size(blocks[b]) >= 1
                      /\ Size(blocks[b]) <= Size(blocks[first])
                /\ \A k \in 0 .. bob.size - 1 :
                      Cardinality({b \in top : k \in covered[b]}) = 1
                /\ p = 1 => \A i \in 0 .. bob.size - 1 :
                                shuffles[1].key_index[i] = i)
    /\ [][op'.name = "create_covering_blocks" =>
            /\ ~op'.failed
            /\ Len(shuffles') = Len(shuffles) + 1
            /\ \A b \in Len(blocks) + 1 .. Len(blocks') :
                  /\ blocks'[b].top
                  /\ blocks'[b].shuffle = Len(shuffles')
                  /\ Size(blocks'[b]) <= op'.arg
                  /\ b < Len(blocks') => Size(blocks'[b]) = op'.arg
            /\ \A b \in 1 .. Len(blocks) : blocks'[b] = blocks[b]
         ]_vars

\* A shuffled pass whose last block is shorter than the others.
C20_Witness ==
    /\ op.name = "create_covering_blocks"
    /\ op.arg = 2
    /\ Len(shuffles) = 2
    /\ bob.size = 3
    /\ shuffles[2].key_index # shuffles[1].key_index
    /\ Cardinality(TopBlocks(2)) = 2

====
